---- MODULE Spec2Model ----
(***************************************************************************)
(* The language server of typst-languagetool (lsp/src/main.rs): the main   *)
(* loop that merges inbound protocol messages with one deferred check,     *)
(* the handlers for the document notifications, live reconfiguration and   *)
(* the check pass with its single-generation suggestion cache.             *)
(*                                                                         *)
(* Time is a counter of ticks.  A handler reads the clock once and takes   *)
(* no time; the clock and the inbound channel move between the steps of    *)
(* the loop and while a check pass is suspended on the analyzer.           *)
(***************************************************************************)
EXTENDS Integers, Sequences, FiniteSets, TLC

(* Bounds of the model. *)
MaxQueue == 1
MaxTime == 1

(***************************************************************************)
(* Option<T>: None is the empty tuple, Some(x) the one-element tuple.      *)
(***************************************************************************)
None == <<>>
Some(x) == <<x>>
IsSome(o) == o # <<>>
Unwrap(o) == o[1]

(***************************************************************************)
(* Documents.  A Url is what the client sends, a path what                 *)
(* Url::to_file_path makes of it.  Text is a sequence of one-byte          *)
(* characters; NL ends a line.                                             *)
(***************************************************************************)
NL == "\n"
UrlA == "file:///a.typ"
UrlB == "file:///b.typ"
Urls == {UrlA, UrlB}
PathA == "/a.typ"
PathB == "/b.typ"
ToFilePath(url) == IF url = UrlA THEN PathA ELSE PathB
Paths == {ToFilePath(u) : u \in Urls}

(* The working directory of the process and Path::join on it. *)
Cwd == "/"
IsAbsolute(path) == path \in Paths \cup {Cwd}
CwdJoin(path) == IF path = "a.typ" THEN PathA ELSE PathB

(***************************************************************************)
(* InitOptions and its serde defaults.  A settings payload is the record   *)
(* of the fields the client sent; a payload with a value of the wrong type *)
(* carries the field "malformed".  Language tags are tuples: <<"en","GB">> *)
(* is "en-GB".  The backend selection (bundled, jar_location, host, port)  *)
(* is the field host; dictionary stands for dictionary and                 *)
(* disabled_checks.                                                        *)
(***************************************************************************)
DefaultChunkSize == 1000
OptionFields == {"dictionary", "languages", "host", "chunk_size", "on_change", "root", "main"}
InitOptionsDefault ==
    [dictionary |-> {}, languages |-> <<>>, host |-> None,
     chunk_size |-> DefaultChunkSize, on_change |-> None,
     root |-> None, main |-> None]

(* serde_ignored::deserialize::<InitOptions>: Err (None) or the options. *)
Deserialize(settings) ==
    IF "malformed" \in DOMAIN settings
    THEN None
    ELSE Some([f \in OptionFields |->
                 IF f \in DOMAIN settings THEN settings[f] ELSE InitOptionsDefault[f]])

MakeAbsolutePath(path) ==
    IF ~IsSome(path) THEN path
    ELSE IF IsAbsolute(Unwrap(path)) THEN path
    ELSE Some(CwdJoin(Unwrap(path)))

MakeAbsolute(o) ==
    [o EXCEPT !.main = MakeAbsolutePath(@), !.root = MakeAbsolutePath(@)]

RECURSIVE create_language_map(_)
create_language_map(codes) ==
    IF codes = <<>> THEN <<>>
    ELSE LET rest == create_language_map(Tail(codes))
             lang == Head(codes)
             key  == Head(lang)
         IN  \* collect() into a HashMap: a later pair overrides an earlier one
             [k \in {key} \cup DOMAIN rest |->
                 IF k \in DOMAIN rest THEN rest[k] ELSE lang]

MakeOptions(o) ==
    [on_change |-> o.on_change, chunk_size |-> o.chunk_size,
     language_codes |-> create_language_map(o.languages)]

(***************************************************************************)
(* The analyzer client.  Construction fails when no backend is selected    *)
(* or the selected one cannot be reached; check_text is a function of the  *)
(* client's configuration, the language and the text, and may fail on any  *)
(* call (the failure is chosen in the action).                             *)
(***************************************************************************)
HostUp == "lt:8081"
HostDown == "down:1"
CreateLt(o) ==
    IF o.host = Some(HostUp)
    THEN Some([host |-> Unwrap(o.host), dictionary |-> o.dictionary])
    ELSE None

CheckText(lt, lang, text) ==
    IF text \in lt.dictionary
    THEN <<>>
    ELSE <<[rule_id |-> "SPELL", message |-> <<lang, text>>,
            replacements |-> <<"x", "y">>]>>

(***************************************************************************)
(* The world: main file, root, and the shadow files that overlay the files *)
(* on disk.                                                                *)
(***************************************************************************)
Disk == [p \in Paths |-> <<"a">>]
FileLanguage == [p \in Paths |-> IF p = PathA THEN <<"en", "US">> ELSE <<"de", "DE">>]
Includes == [p \in Paths |-> IF p = PathA THEN {PathA, PathB} ELSE {PathB}]

NoShadows == [p \in Paths |-> None]
UseShadowFile(w, path, text) == [w EXCEPT !.shadow_files[path] = Some(text)]
UseOriginalFile(w, path) == [w EXCEPT !.shadow_files[path] = None]
ShadowFile(w, path) == w.shadow_files[path]
WorldUpdate(w, main, root) == [w EXCEPT !.main = main, !.root = root]
WorldNew(main, root) == [main |-> main, root |-> root, shadow_files |-> NoShadows]

(* The text the compiler reads for a path. *)
FileText(w, path) ==
    IF IsSome(w.shadow_files[path]) THEN Unwrap(w.shadow_files[path]) ELSE Disk[path]

Contains(text, ch) == \E i \in 1..Len(text) : text[i] = ch

(* world.compile(): Err (None) when a file of the document does not compile. *)
Compile(w) ==
    IF \E p \in Includes[w.main] : Contains(FileText(w, p), "#")
    THEN None
    ELSE Some([main |-> w.main, files |-> [p \in Includes[w.main] |-> FileText(w, p)]])

(***************************************************************************)
(* Source: the editable text of a shadow file.  Lines are numbered from 0, *)
(* byte offsets start at 0; a line's range runs up to the start of the     *)
(* next line, so it includes its newline.                                  *)
(***************************************************************************)
Newlines(text) == {i \in 1..Len(text) : text[i] = NL}

(* Source::line_to_byte: the offset of the first byte of a line. *)
LineToByte(text, line) ==
    IF line = 0 THEN Some(0)
    ELSE IF line > Cardinality(Newlines(text)) THEN None
    ELSE Some(CHOOSE i \in Newlines(text) :
                 Cardinality({j \in Newlines(text) : j <= i}) = line)

LineEnd(text, line) ==
    IF IsSome(LineToByte(text, line + 1))
    THEN Unwrap(LineToByte(text, line + 1))
    ELSE Len(text)

Min(a, b) == IF a <= b THEN a ELSE b

(* Source::line_column_to_byte: None for a line past the end; a column     *)
(* past the end of the line stops at the end of the line's range.          *)
LineColumnToByte(text, line, column) ==
    IF ~IsSome(LineToByte(text, line)) THEN None
    ELSE LET start == Unwrap(LineToByte(text, line))
         IN  Some(start + Min(column, LineEnd(text, line) - start))

(* Source::edit(start..end, with); Source::replace(with). *)
SourceEdit(text, start, end, with) ==
    SubSeq(text, 1, start) \o with \o SubSeq(text, end + 1, Len(text))
SourceReplace(text, with) == with

(* One content change of a didChange notification applied to the text:     *)
(* None when the code panics (an unwrap of None, or a range whose start    *)
(* lies behind its end).                                                   *)
ApplyChange(text, change) ==
    IF IsSome(change.range)
    THEN LET range == Unwrap(change.range)
             start == LineColumnToByte(text, range.start.line, range.start.character)
             end   == LineColumnToByte(text, range.end.line, range.end.character)
         IN  IF ~IsSome(start) \/ ~IsSome(end) THEN None
             ELSE IF Unwrap(start) > Unwrap(end) THEN None
             ELSE Some(SourceEdit(text, Unwrap(start), Unwrap(end), change.text))
    ELSE Some(SourceReplace(text, change.text))

(* The loop over params.content_changes from its last element to its first. *)
RECURSIVE ApplyChangesReversed(_, _)
ApplyChangesReversed(text, changes) ==
    IF changes = <<>> THEN Some(text)
    ELSE LET rest == ApplyChangesReversed(text, Tail(changes))
         IN  IF IsSome(rest) THEN ApplyChange(Unwrap(rest), Head(changes)) ELSE None
(* The loop over params.content_changes, in the order received. *)
RECURSIVE ApplyChanges(_, _)
ApplyChanges(text, changes) ==
    IF changes = <<>> THEN Some(text)
    ELSE LET next == ApplyChange(text, Head(changes))
         IN  IF IsSome(next) THEN ApplyChanges(Unwrap(next), Tail(changes)) ELSE None

(* The text a client holds after a change: the edits applied to the text   *)
(* it held; None when it held none.                                        *)
Edited(held, changes) ==
    IF IsSome(held) THEN ApplyChanges(Unwrap(held), changes) ELSE None

(***************************************************************************)
(* The segmenter, convert::document(doc, chunk_size, file_id): the         *)
(* non-empty lines of the file as the document holds it, each cut into     *)
(* pieces of at most chunk_size bytes, with the file's language.           *)
(***************************************************************************)
RECURSIVE SplitLines(_)
SplitLines(text) ==
    IF Newlines(text) = {} THEN <<text>>
    ELSE LET i == CHOOSE k \in Newlines(text) : \A j \in Newlines(text) : k <= j
         IN  <<SubSeq(text, 1, i - 1)>> \o SplitLines(SubSeq(text, i + 1, Len(text)))

RECURSIVE Chunks(_, _)
Chunks(line, chunk_size) ==
    IF line = <<>> THEN <<>>
    ELSE IF Len(line) <= chunk_size THEN <<line>>
    ELSE <<SubSeq(line, 1, chunk_size)>> \o Chunks(SubSeq(line, chunk_size + 1, Len(line)), chunk_size)

RECURSIVE ChunkAll(_, _)
ChunkAll(lines, chunk_size) ==
    IF lines = <<>> THEN <<>>
    ELSE Chunks(Head(lines), chunk_size) \o ChunkAll(Tail(lines), chunk_size)

Mapping(path) ==
    [short_language |-> Head(FileLanguage[path]), long_language |-> FileLanguage[path]]

Document(doc, chunk_size, path) ==
    IF path \notin DOMAIN doc.files THEN <<>>
    ELSE LET texts == ChunkAll(SplitLines(doc.files[path]), chunk_size)
         IN  [i \in 1..Len(texts) |-> [text |-> texts[i], mapping |-> Mapping(path)]]

(***************************************************************************)
(* Cache: a map from segment text to suggestions.  get removes the entry.  *)
(***************************************************************************)
CacheNew == [t \in {} |-> <<>>]
CacheGetMiss(c, text) == None
CacheGet(c, text) == IF text \in DOMAIN c THEN Some(c[text]) ELSE None
(* HashMap::remove as it would be if it left the entry in place. *)
CacheRemoveKeeps(c, text) == c
CacheRemove(c, text) == [t \in DOMAIN c \ {text} |-> c[t]]
CacheInsert(c, text, suggestions) ==
    [t \in DOMAIN c \cup {text} |-> IF t = text THEN suggestions ELSE c[t]]

(***************************************************************************)
(* Messages of the client.                                                 *)
(***************************************************************************)
Notification(method, params) == [type |-> "notification", method |-> method, params |-> params]
Request(method, params) == [type |-> "request", method |-> method, params |-> params]
Response(result) == [type |-> "response", method |-> "", params |-> result]
Malformed == [malformed |-> TRUE]

DidOpen == "textDocument/didOpen"
DidChange == "textDocument/didChange"
DidSave == "textDocument/didSave"
DidClose == "textDocument/didClose"
DidChangeConfiguration == "workspace/didChangeConfiguration"
CodeActionRequest == "textDocument/codeAction"
Cancel == "$/cancelRequest"
SetTrace == "$/setTrace"
PublishDiagnostics == "textDocument/publishDiagnostics"

Position(line, character) == [line |-> line, character |-> character]
Range(start, end) == [start |-> start, end |-> end]

(***************************************************************************)
(* Inputs.  A client sends the messages of one of four sets: document      *)
(* events with the idle duration switched on and off (Sched), documents    *)
(* whose segments repeat and change with the main file and the analyzer    *)
(* reconfigured (Cache), well-formed and malformed payloads (Proto), and   *)
(* a document that is opened, edited and closed (Doc).                     *)
(***************************************************************************)
FullReplace(text) == [range |-> None, text |-> text]
RangeEdit(l1, c1, l2, c2, text) ==
    [range |-> Some(Range(Position(l1, c1), Position(l2, c2))), text |-> text]

DidOpenOf(u, t) == Notification(DidOpen, [uri |-> u, text |-> t])
DidChangeOf(u, c) == Notification(DidChange, [uri |-> u, content_changes |-> c])
DidSaveOf(u) == Notification(DidSave, [uri |-> u])
DidCloseOf(u) == Notification(DidClose, [uri |-> u])
DidChangeConfigurationOf(s) == Notification(DidChangeConfiguration, [settings |-> s])

StartupSettings == [main |-> Some("a.typ"), host |-> Some(HostUp)]
SetIdle == [host |-> Some(HostUp), on_change |-> Some(1)]
SetNoIdle == [host |-> Some(HostUp)]
SetMainB ==
    [main |-> Some("b.typ"), root |-> Some(Cwd), host |-> Some(HostUp),
     on_change |-> Some(1), chunk_size |-> 1, languages |-> <<<<"de", "AT">>>>]
SetMainBOnly ==
    [main |-> Some("b.typ"), host |-> Some(HostUp), chunk_size |-> 1,
     languages |-> <<<<"de", "AT">>>>]
SetDictionary == [host |-> Some(HostUp), dictionary |-> {<<"a">>}]
SetHostDown == [main |-> Some("a.typ"), host |-> Some(HostDown), chunk_size |-> 2]

SetGerman == [host |-> Some(HostUp), languages |-> <<<<"de", "AT">>, <<"de", "CH">>>>]
SetBritish == [host |-> Some(HostUp), languages |-> <<<<"en", "GB">>>>]
SetBoth == [host |-> Some(HostUp), languages |-> <<<<"de">>, <<"en", "GB">>>>]

(* The diagnostics a fix request echoes back. *)
JsonStrings(items) == [json |-> "array", items |-> items]
JsonObject == [json |-> "object", items |-> <<>>]
EchoedDiagnostic(data) == [range |-> Range(Position(0, 0), Position(0, 1)), data |-> data]
CodeActionOf(d) == Request(CodeActionRequest, [uri |-> UrlA, diagnostics |-> d])

SchedInbox ==
    {DidOpenOf(UrlA, <<"a">>), DidChangeOf(UrlA, <<FullReplace(<<"a">>)>>), DidCloseOf(UrlA)}
    \cup {DidSaveOf(u) : u \in Urls}
    \cup {DidChangeConfigurationOf(SetIdle), DidChangeConfigurationOf(SetNoIdle)}
    \cup {Notification(Cancel, [id |-> 1])}

CacheInbox ==
    {DidOpenOf(UrlA, <<"a", NL, "a">>), DidOpenOf(UrlA, <<"b">>)}
    \cup {DidChangeOf(UrlA, <<RangeEdit(0, 0, 0, 1, <<"#">>)>>)}
    \cup {DidSaveOf(u) : u \in Urls}
    \cup {DidChangeConfigurationOf(SetMainBOnly), DidChangeConfigurationOf(SetDictionary)}

ProtoInbox ==
    {DidSaveOf(UrlA), DidOpenOf(UrlB, <<"a">>)}
    \cup {DidChangeConfigurationOf(s) : s \in {SetMainB, SetHostDown, Malformed}}
    \cup {CodeActionOf(d) : d \in {<<>>, <<EchoedDiagnostic(None)>>,
                                   <<EchoedDiagnostic(Some(JsonObject))>>,
                                   <<EchoedDiagnostic(None),
                                     EchoedDiagnostic(Some(JsonStrings(<<"foo", "bar">>)))>>}}
    \cup {Notification(DidSave, Malformed), Request(CodeActionRequest, Malformed)}
    \cup {Notification(Cancel, [id |-> 1]), Notification("unknown/notification", [id |-> 1]),
          Request("unknown/request", [id |-> 1]), Response([id |-> 1])}

DocInbox ==
    {DidOpenOf(UrlA, <<"b">>), DidOpenOf(UrlA, <<"b", NL, "a">>),
     DidCloseOf(UrlA), DidSaveOf(UrlA)}
    \cup {DidChangeOf(UrlA, <<FullReplace(<<"b", NL, "b">>), RangeEdit(1, 0, 1, 1, <<"c">>)>>),
          DidChangeOf(UrlA, <<RangeEdit(0, 0, 0, 1, <<"d">>)>>)}

FrameInbox ==
    {DidOpenOf(UrlA, <<"a">>), DidSaveOf(UrlB), DidCloseOf(UrlA),
     DidChangeOf(UrlA, <<FullReplace(<<"a">>)>>)}
    \cup {DidChangeConfigurationOf(SetIdle), DidChangeConfigurationOf(SetNoIdle)}
    \cup {CodeActionOf(<<>>)}
    \cup {Notification(Cancel, [id |-> 1]), Notification("unknown/notification", [id |-> 1]),
          Request("unknown/request", [id |-> 1]), Response([id |-> 1])}

LiveInbox ==
    {DidOpenOf(UrlA, <<"a">>), DidSaveOf(UrlB), DidChangeOf(UrlA, <<FullReplace(<<"a">>)>>)}
    \cup {DidChangeConfigurationOf(SetIdle)}

LangInbox ==
    {DidSaveOf(u) : u \in Urls}
    \cup {DidChangeConfigurationOf(s) : s \in {SetGerman, SetBritish, SetBoth, SetNoIdle}}

Inbox ==
    SchedInbox \cup CacheInbox \cup ProtoInbox \cup DocInbox \cup FrameInbox \cup LiveInbox
    \cup LangInbox

(***************************************************************************)
(* State.                                                                  *)
(*   queue, connected   the number of messages waiting in                  *)
(*                      connection.receiver (a message's content is read   *)
(*                      when it is received) and whether its sender lives  *)
(*   now                the clock (Instant::now)                           *)
(*   check, world, lt, options, cache   the fields of State                *)
(*   pass               the check pass suspended on the analyzer, or None  *)
(*   exit               "running", or how main_loop ended                  *)
(*   out                what the server sent in the step just taken, or    *)
(*                      None                                               *)
(*   log                the last line the server wrote to stderr in that   *)
(*                      step, if it wrote one                              *)
(* History, for the properties:                                            *)
(*   armed       the latest event that armed the check (its document, its  *)
(*               time, the idle duration it added) and the number n of     *)
(*               run-check actions returned since                          *)
(*   lastChange  the latest change event: its document, its time, the idle *)
(*               duration configured then and its edits                    *)
(*   swapped     a reconfiguration changed the main file and no pass has   *)
(*               completed since                                           *)
(*   prevPass    the pass that ended last: how it ended, its segments,     *)
(*               what the collector got, the analyzer calls, the cache it  *)
(*               started with (the field before of a pass)                 *)
(*   buffer      for each path, the text the client holds for it: the text *)
(*               of its open event with the edits of the change events     *)
(*               since, or None when it is not open                        *)
(***************************************************************************)
VARIABLES queue, connected, now, check, world, lt, options, cache, pass, exit, out, log,
          armed, lastChange, swapped, prevPass, buffer

vars == <<queue, connected, now, check, world, lt, options, cache, pass, exit, out, log,
          armed, lastChange, swapped, prevPass, buffer>>
history == <<armed, lastChange, swapped, prevPass, buffer>>

CheckData(check_time, url) ==
    [check_time |-> check_time, url |-> url, path |-> ToFilePath(url)]

NoPass ==
    [status |-> "none", paragraphs |-> <<>>, collector |-> <<>>, calls |-> <<>>,
     before |-> CacheNew, after_swap |-> FALSE]

(* State::new, after the startup options were read. *)
Init ==
    LET o == MakeAbsolute(Unwrap(Deserialize(StartupSettings)))
    IN      /\ queue = 0
            /\ connected = TRUE
            /\ now = 0
            /\ check = None
            /\ world = WorldNew(Unwrap(o.main), o.root)
            /\ lt = Unwrap(CreateLt(o))
            /\ options = MakeOptions(o)
            /\ cache = CacheNew
            /\ pass = None
            /\ exit = "running"
            /\ out = None
            /\ log = <<>>
            /\ buffer = [p \in Paths |-> None]
            /\ armed = None
            /\ lastChange = None
            /\ swapped = FALSE
            /\ prevPass = NoPass

(***************************************************************************)
(* The environment: the clock, the client.                                 *)
(***************************************************************************)
Tick ==
    /\ exit = "running"
    /\ now < MaxTime
    /\ now' = now + 1
    /\ out' = None /\ log' = <<>>
    /\ UNCHANGED <<queue, connected, check, world, lt, options, cache, pass, exit, history>>

Enqueue ==
    /\ exit = "running"
    /\ connected
    /\ queue < MaxQueue
    /\ queue' = queue + 1
    /\ out' = None /\ log' = <<>>
    /\ UNCHANGED <<connected, now, check, world, lt, options, cache, pass, exit, history>>

Disconnect ==
    /\ exit = "running"
    /\ connected
    /\ connected' = FALSE
    /\ out' = None /\ log' = <<>>
    /\ UNCHANGED <<queue, now, check, world, lt, options, cache, pass, exit, history>>

(***************************************************************************)
(* main_loop and next_action.  A message that is ready is returned before  *)
(* the deadline is looked at; a disconnected, empty channel is an error;   *)
(* otherwise the wait times out once the clock has reached the deadline.   *)
(***************************************************************************)
(* The loop takes its next action while a pass is suspended. *)
IdleWhileChecking == exit = "running"
(* main_loop is at next_action: the action before it has been awaited to   *)
(* its end.                                                                *)
Idle == exit = "running" /\ pass = None
Received == Idle /\ queue > 0 /\ queue' = queue - 1
IsNotification(m, method) == m.type = "notification" /\ m.method = method
IsRequest(m, method) == m.type = "request" /\ m.method = method
Parses(m) == "malformed" \notin DOMAIN m.params

RecvError ==
    /\ Idle
    /\ queue = 0
    /\ ~connected
    /\ exit' = "disconnected"
    /\ out' = None /\ log' = <<"Error">>
    /\ UNCHANGED <<queue, connected, now, check, world, lt, options, cache, pass, history>>

(* cast_notification / cast_request: ExtractError::JsonError ends the loop. *)
PayloadError(m) ==
    /\ Received
    /\ m.type \in {"notification", "request"}
    /\ m.method \in {DidChange, DidSave, DidOpen, DidClose, DidChangeConfiguration,
                     Cancel, SetTrace, CodeActionRequest}
    /\ ~Parses(m)
    /\ exit' = "json_error"
    /\ out' = None /\ log' = <<"Error">>
    /\ UNCHANGED <<connected, now, check, world, lt, options, cache, pass, history>>

(* file_save as it would be if a pending check were kept, not replaced. *)
FileSaveKeepsPending(m) ==
    /\ Received
    /\ IsNotification(m, DidSave) /\ Parses(m)
    /\ check' = IF IsSome(check) THEN check ELSE Some(CheckData(now, m.params.uri))
    /\ armed' = Some([url |-> m.params.uri, time |-> now, idle |-> None, n |-> 0])
    /\ out' = None /\ log' = <<"Save">>
    /\ UNCHANGED <<connected, now, world, lt, options, cache, pass, exit, buffer,
                   lastChange, swapped, prevPass>>

FileSave(m) ==
    /\ Received
    /\ IsNotification(m, DidSave) /\ Parses(m)
    /\ check' = Some(CheckData(now, m.params.uri))
    /\ armed' = Some([url |-> m.params.uri, time |-> now, idle |-> None, n |-> 0])
    /\ out' = None /\ log' = <<"Save">>
    /\ UNCHANGED <<connected, now, world, lt, options, cache, pass, exit, buffer,
                   lastChange, swapped, prevPass>>

FileOpen(m) ==
    /\ Received
    /\ IsNotification(m, DidOpen) /\ Parses(m)
    /\ world' = UseShadowFile(world, ToFilePath(m.params.uri), m.params.text)
    /\ check' = Some(CheckData(now, m.params.uri))
    /\ armed' = Some([url |-> m.params.uri, time |-> now, idle |-> None, n |-> 0])
    /\ buffer' = [buffer EXCEPT ![ToFilePath(m.params.uri)] = Some(m.params.text)]
    /\ out' = None /\ log' = <<"Open">>
    /\ UNCHANGED <<connected, now, lt, options, cache, pass, exit,
                   lastChange, swapped, prevPass>>

(* file_close that leaves the shadow file in place. *)
FileCloseKeepsShadow(m) ==
    /\ Received
    /\ IsNotification(m, DidClose) /\ Parses(m)
    /\ buffer' = [buffer EXCEPT ![ToFilePath(m.params.uri)] = None]
    /\ out' = None /\ log' = <<"Close">>
    /\ UNCHANGED <<connected, now, check, world, lt, options, cache, pass, exit,
                   armed, lastChange, swapped, prevPass>>
FileClose(m) ==
    /\ Received
    /\ IsNotification(m, DidClose) /\ Parses(m)
    /\ world' = UseOriginalFile(world, ToFilePath(m.params.uri))
    /\ buffer' = [buffer EXCEPT ![ToFilePath(m.params.uri)] = None]
    /\ out' = None /\ log' = <<"Close">>
    /\ UNCHANGED <<connected, now, check, lt, options, cache, pass, exit,
                   armed, lastChange, swapped, prevPass>>

(* file_change as it would be if the idle duration were not added. *)
FileChangeNoDelay(m) ==
    /\ Received
    /\ IsNotification(m, DidChange) /\ Parses(m)
    /\ IsSome(ShadowFile(world, ToFilePath(m.params.uri)))
    /\ IsSome(ApplyChanges(Unwrap(ShadowFile(world, ToFilePath(m.params.uri))),
                           m.params.content_changes))
    /\ world' = UseShadowFile(world, ToFilePath(m.params.uri),
                              Unwrap(ApplyChanges(Unwrap(ShadowFile(world, ToFilePath(m.params.uri))),
                                                  m.params.content_changes)))
    /\ IF ~IsSome(options.on_change)
       THEN UNCHANGED <<check, armed>>
       ELSE /\ check' = Some(CheckData(now, m.params.uri))
            /\ armed' = Some([url |-> m.params.uri, time |-> now,
                              idle |-> options.on_change, n |-> 0])
    /\ lastChange' = Some([url |-> m.params.uri, time |-> now, idle |-> options.on_change,
                            changes |-> m.params.content_changes])
    /\ buffer' = [buffer EXCEPT ![ToFilePath(m.params.uri)] =
                     Edited(@, m.params.content_changes)]
    /\ out' = None /\ log' = <<"Change">>
    /\ UNCHANGED <<connected, now, lt, options, cache, pass, exit, swapped, prevPass>>

(* file_change: the edits, then the arming when an idle duration is set.   *)
(* shadow_file(..).unwrap() and the unwraps of the conversions panic.      *)
FileChange(m) ==
    /\ Received
    /\ IsNotification(m, DidChange) /\ Parses(m)
    /\ LET path   == ToFilePath(m.params.uri)
           source == ShadowFile(world, path)
           edited == IF IsSome(source)
                     THEN ApplyChanges(Unwrap(source), m.params.content_changes)
                     ELSE None
       IN  IF ~IsSome(edited)
           THEN /\ exit' = "panic"
                /\ log' = <<"panicked">>
                /\ UNCHANGED <<check, world, armed, lastChange, buffer>>
           ELSE /\ exit' = exit
                /\ log' = <<"Change">>
                /\ buffer' = [buffer EXCEPT ![path] = Edited(@, m.params.content_changes)]
                /\ world' = UseShadowFile(world, path, Unwrap(edited))
                /\ IF ~IsSome(options.on_change)
                   THEN UNCHANGED <<check, armed>>
                   ELSE LET duration == Unwrap(options.on_change)
                        IN  /\ check' = Some(CheckData(now + duration, m.params.uri))
                            /\ armed' = Some([url |-> m.params.uri, time |-> now,
                                              idle |-> options.on_change, n |-> 0])
                /\ lastChange' = Some([url |-> m.params.uri, time |-> now,
                                        idle |-> options.on_change,
                                        changes |-> m.params.content_changes])
    /\ out' = None
    /\ UNCHANGED <<connected, now, lt, options, cache, pass, swapped, prevPass>>

(* config_change with the options assigned before the backend is built. *)
ConfigChangeEager(m) ==
    /\ Received
    /\ IsNotification(m, DidChangeConfiguration) /\ Parses(m)
    /\ LET parsed == Deserialize(m.params.settings)
       IN  IF ~IsSome(parsed)
           THEN /\ log' = <<"settings error">>
                /\ UNCHANGED <<world, lt, options, swapped>>
           ELSE LET o      == MakeAbsolute(Unwrap(parsed))
                    new_lt == CreateLt(o)
                IN  /\ options' = MakeOptions(o)
                    /\ IF ~IsSome(new_lt)
                       THEN /\ log' = <<"backend error">>
                            /\ UNCHANGED <<world, lt, swapped>>
                       ELSE /\ log' = <<"Options:">>
                            /\ lt' = Unwrap(new_lt)
                            /\ world' = IF IsSome(o.main)
                                        THEN WorldUpdate(world, Unwrap(o.main), o.root)
                                        ELSE world
                            /\ swapped' = (swapped \/ (IsSome(o.main) /\ Unwrap(o.main) # world.main))
    /\ out' = None
    /\ UNCHANGED <<connected, now, check, cache, pass, exit, armed, lastChange, prevPass,
                   buffer>>
(* config_change: nothing is assigned before the two early returns. *)
ConfigChange(m) ==
    /\ Received
    /\ IsNotification(m, DidChangeConfiguration) /\ Parses(m)
    /\ LET parsed == Deserialize(m.params.settings)
       IN  IF ~IsSome(parsed)
           THEN /\ log' = <<"settings error">>
                /\ UNCHANGED <<world, lt, options, swapped>>
           ELSE LET o      == MakeAbsolute(Unwrap(parsed))
                    new_lt == CreateLt(o)
                IN  IF ~IsSome(new_lt)
                    THEN /\ log' = <<"backend error">>
                         /\ UNCHANGED <<world, lt, options, swapped>>
                    ELSE /\ log' = <<"Options:">>
                         /\ lt' = Unwrap(new_lt)
                         /\ world' = IF IsSome(o.main)
                                     THEN WorldUpdate(world, Unwrap(o.main), o.root)
                                     ELSE world
                         /\ options' = MakeOptions(o)
                         /\ swapped' = (swapped \/ (IsSome(o.main) /\ Unwrap(o.main) # world.main))
    /\ out' = None
    /\ UNCHANGED <<connected, now, check, cache, pass, exit, armed, lastChange, prevPass,
                   buffer>>

(* code_action: one candidate per replacement of the last diagnostic. *)
Title(value) == <<"Replace with \"", value, "\"">>
code_actionFirst(params) ==
    IF params.diagnostics = <<>> THEN None
    ELSE LET diagnostic == params.diagnostics[1]
         IN  IF ~IsSome(diagnostic.data) THEN None
             ELSE IF Unwrap(diagnostic.data).json # "array" THEN None
             ELSE LET replacements == Unwrap(diagnostic.data).items
                  IN  Some([i \in 1..Len(replacements) |->
                              [title |-> Title(replacements[i]),
                               is_preferred |-> (i = 1),
                               kind |-> "quickfix",
                               diagnostics |-> params.diagnostics,
                               edit |-> [uri |-> params.uri,
                                         range |-> diagnostic.range,
                                         new_text |-> replacements[i]]]])
code_action(params) ==
    IF params.diagnostics = <<>> THEN None
    ELSE LET diagnostic == params.diagnostics[Len(params.diagnostics)]
         IN  IF ~IsSome(diagnostic.data) THEN None
             ELSE IF Unwrap(diagnostic.data).json # "array" THEN None
             ELSE LET replacements == Unwrap(diagnostic.data).items
                  IN  Some([i \in 1..Len(replacements) |->
                              [title |-> Title(replacements[i]),
                               is_preferred |-> (i = 1),
                               kind |-> "quickfix",
                               diagnostics |-> params.diagnostics,
                               edit |-> [uri |-> params.uri,
                                         range |-> diagnostic.range,
                                         new_text |-> replacements[i]]]])

CodeAction(m) ==
    /\ Received
    /\ IsRequest(m, CodeActionRequest) /\ Parses(m)
    /\ out' = Some(Response([result |-> code_action(m.params)]))
    /\ log' = LET diagnostics == m.params.diagnostics
              IN  IF /\ diagnostics # <<>>
                     /\ IsSome(diagnostics[Len(diagnostics)].data)
                     /\ Unwrap(diagnostics[Len(diagnostics)].data).json # "array"
                  THEN <<"replacements error">>
                  ELSE <<>>
    /\ UNCHANGED <<connected, now, check, world, lt, options, cache, pass, exit, history>>

(* A dropped message as it would be if receiving it took the pending check. *)
IgnoredTakesCheck(m) ==
    /\ Received
    /\ \/ m.type = "response"
       \/ m.type = "request" /\ m.method # CodeActionRequest
       \/ /\ m.type = "notification"
          /\ m.method \notin {DidChange, DidSave, DidOpen, DidClose, DidChangeConfiguration}
          /\ (m.method \in {Cancel, SetTrace} => Parses(m))
    /\ check' = None
    /\ out' = None
    /\ log' = IF m.type = "response" THEN <<"Unknown response">>
              ELSE IF m.type = "request" THEN <<"Unknown request">>
              ELSE IF m.method \in {Cancel, SetTrace} THEN <<>>
              ELSE <<"Unknown notification">>
    /\ UNCHANGED <<connected, now, world, lt, options, cache, pass, exit, history>>
(* Cancel, SetTrace, unknown methods and responses are dropped. *)
Ignored(m) ==
    /\ Received
    /\ \/ m.type = "response"
       \/ m.type = "request" /\ m.method # CodeActionRequest
       \/ /\ m.type = "notification"
          /\ m.method \notin {DidChange, DidSave, DidOpen, DidClose, DidChangeConfiguration}
          /\ (m.method \in {Cancel, SetTrace} => Parses(m))
    /\ out' = None
    /\ log' = IF m.type = "response" THEN <<"Unknown response">>
              ELSE IF m.type = "request" THEN <<"Unknown request">>
              ELSE IF m.method \in {Cancel, SetTrace} THEN <<>>
              ELSE <<"Unknown notification">>
    /\ UNCHANGED <<connected, now, check, world, lt, options, cache, pass, exit, history>>

(***************************************************************************)
(* The check pass: check_change and get_diagnostics.  The pass runs from   *)
(* the timeout of next_action to its first analyzer call, and from each    *)
(* analyzer result to the next call or to its end; lookups that hit run    *)
(* without a suspension.                                                   *)
(***************************************************************************)
(* The lookup as it would be if the segment's own tag were always used. *)
ResolveLanguageOwn(opts, mapping) == mapping.long_language
(* language_codes.get(short_language), or else long_language. *)
ResolveLanguage(opts, mapping) ==
    IF mapping.short_language \in DOMAIN opts.language_codes
    THEN opts.language_codes[mapping.short_language]
    ELSE mapping.long_language

(* collector.add and next_cache.insert for the segment at p.idx. *)
AddSegment(p, suggestions) ==
    [p EXCEPT !.collector = Append(@, [idx |-> p.idx, text |-> p.paragraphs[p.idx].text,
                                       suggestions |-> suggestions]),
              !.next_cache = CacheInsert(@, p.paragraphs[p.idx].text, suggestions),
              !.idx = @ + 1]

(* The loop over the paragraphs from p.idx on, up to the first miss. *)
RECURSIVE RunLoop(_, _, _)
RunLoop(c, p, opts) ==
    IF p.idx > Len(p.paragraphs)
    THEN [cache |-> c, pass |-> p, done |-> TRUE]
    ELSE LET text == p.paragraphs[p.idx].text
             lang == ResolveLanguage(opts, p.paragraphs[p.idx].mapping)
             hit  == CacheGet(c, text)
         IN  IF IsSome(hit)
             THEN RunLoop(CacheRemove(c, text), AddSegment(p, Unwrap(hit)), opts)
             ELSE [cache |-> c,
                   pass  |-> [p EXCEPT !.calls = Append(@, [idx |-> p.idx, lang |-> lang,
                                                            text |-> text])],
                   done  |-> FALSE]

(* collector.finish() and the map to lsp_types::Diagnostic. *)
RECURSIVE Diagnostics(_)
Diagnostics(collector) ==
    IF collector = <<>> THEN <<>>
    ELSE LET entry == Head(collector)
         IN  [i \in 1..Len(entry.suggestions) |->
                 [segment |-> entry.idx,
                  code |-> entry.suggestions[i].rule_id,
                  message |-> entry.suggestions[i].message,
                  data |-> Some(JsonStrings(entry.suggestions[i].replacements))]]
             \o Diagnostics(Tail(collector))

Publish(url, diagnostics) ==
    Notification(PublishDiagnostics, [uri |-> url, diagnostics |-> diagnostics])

Ended(status, p) ==
    [status |-> status, paragraphs |-> p.paragraphs, collector |-> p.collector,
     calls |-> p.calls, before |-> p.before, after_swap |-> swapped]

(* The end of the loop with the new cache added to the old one. *)
PassDoneMerges(p) ==
    /\ cache' = [t \in DOMAIN cache \cup DOMAIN p.next_cache |->
                    IF t \in DOMAIN p.next_cache THEN p.next_cache[t] ELSE cache[t]]
    /\ pass' = None
    /\ out' = Some(Publish(p.url, Diagnostics(p.collector)))
    /\ log' = <<"Diagnostics send">>
    /\ prevPass' = Ended("done", p)
    /\ swapped' = FALSE
(* The end of the loop: the cache is replaced, the diagnostics are sent. *)
PassDone(p) ==
    /\ cache' = p.next_cache
    /\ pass' = None
    /\ out' = Some(Publish(p.url, Diagnostics(p.collector)))
    /\ log' = <<"Diagnostics send">>
    /\ prevPass' = Ended("done", p)
    /\ swapped' = FALSE

(* The suspension with the results so far inserted into the session cache. *)
PassSuspendedStores(r) ==
    /\ cache' = [t \in DOMAIN r.cache \cup DOMAIN r.pass.next_cache |->
                    IF t \in DOMAIN r.pass.next_cache THEN r.pass.next_cache[t]
                    ELSE r.cache[t]]
    /\ pass' = Some(r.pass)
    /\ out' = None
    /\ log' = <<"Checking i/l">>
    /\ UNCHANGED <<prevPass, swapped>>
(* The loop stops at check_text(..).await: the entries taken so far are    *)
(* gone from the cache, the results so far are in next_cache.              *)
PassSuspended(r) ==
    /\ cache' = r.cache
    /\ pass' = Some(r.pass)
    /\ out' = None
    /\ log' = <<"Checking i/l">>
    /\ UNCHANGED <<prevPass, swapped>>

(* A receive with no deadline: it never times out. *)
TimedOutNever == FALSE
(* recv_deadline with no message waiting and the peer there. *)
TimedOutEarly == IsSome(check) /\ queue = 0 /\ connected
(* recv_deadline returns Timeout: no message is waiting, the peer is there *)
(* and the deadline of the PendingCheck has passed.                        *)
TimedOut ==
    /\ IsSome(check)
    /\ queue = 0
    /\ connected
    /\ now >= Unwrap(check).check_time

(* world.compile() fails and get_diagnostics returns the error. *)
CompileFailedAborts(p0) ==
    /\ out' = None
    /\ log' = <<"Failed to compile document">>
    /\ prevPass' = Ended("compile_failed", p0)
    /\ UNCHANGED <<cache, pass, swapped>>
(* world.compile() fails: get_diagnostics returns Ok(Vec::new()) and        *)
(* check_change publishes it.                                              *)
CompileFailed(p0) ==
    /\ out' = Some(Publish(p0.url, <<>>))
    /\ log' = <<"Diagnostics send">>
    /\ prevPass' = Ended("compile_failed", p0)
    /\ UNCHANGED <<cache, pass, swapped>>

(* next_action times out: the check is taken and the pass starts. *)
CheckStart ==
    /\ Idle
    /\ TimedOut
    /\ check' = None
    /\ armed' = [i \in DOMAIN armed |-> [armed[i] EXCEPT !.n = @ + 1]]
    /\ LET data == Unwrap(check)
           doc  == Compile(world)
           p0   == [url |-> data.url, path |-> data.path, main |-> world.main,
                    paragraphs |-> IF IsSome(doc)
                                   THEN Document(Unwrap(doc), options.chunk_size, data.path)
                                   ELSE <<>>,
                    idx |-> 1, next_cache |-> CacheNew, collector |-> <<>>, calls |-> <<>>,
                    before |-> cache]
       IN  \E p \in {p0} :
              IF ~IsSome(doc)
              THEN CompileFailed(p)
              ELSE \E r \in {RunLoop(cache, p, options)} :
                      IF r.done THEN PassDone(r.pass) ELSE PassSuspended(r)
    /\ UNCHANGED <<queue, connected, now, world, lt, options, exit, lastChange, buffer>>

(* check_text returns Ok: the loop goes on. *)
AnalyzerOk ==
    /\ exit = "running"
    /\ IsSome(pass)
    /\ LET p    == Unwrap(pass)
           call == p.calls[Len(p.calls)]
           r    == RunLoop(cache, AddSegment(p, CheckText(lt, call.lang, call.text)), options)
       IN  IF r.done THEN PassDone(r.pass) ELSE PassSuspended(r)
    /\ UNCHANGED <<queue, connected, now, check, world, lt, options, exit, armed, lastChange,
                   buffer>>

(* check_text returns Err and what the collector has is sent. *)
AnalyzerErrPublishes ==
    /\ exit = "running"
    /\ IsSome(pass)
    /\ pass' = None
    /\ out' = Some(Publish(Unwrap(pass).url, Diagnostics(Unwrap(pass).collector)))
    /\ log' = <<"analyzer error">>
    /\ prevPass' = Ended("aborted", Unwrap(pass))
    /\ UNCHANGED <<queue, connected, now, check, world, lt, options, cache, exit,
                   armed, lastChange, swapped, buffer>>
(* check_text returns Err: get_diagnostics returns it, check_change logs it. *)
AnalyzerErr ==
    /\ exit = "running"
    /\ IsSome(pass)
    /\ pass' = None
    /\ out' = None
    /\ log' = <<"analyzer error">>
    /\ prevPass' = Ended("aborted", Unwrap(pass))
    /\ UNCHANGED <<queue, connected, now, check, world, lt, options, cache, exit,
                   armed, lastChange, swapped, buffer>>

Environment == Tick \/ Enqueue \/ Disconnect
CheckPass == CheckStart \/ AnalyzerOk \/ AnalyzerErr

Next ==
    \/ Environment
    \/ RecvError
    \/ CheckPass
    \/ \E m \in Inbox :
        \/ PayloadError(m)
        \/ FileSave(m)
        \/ FileOpen(m)
        \/ FileClose(m)
        \/ FileChange(m)
        \/ ConfigChange(m)
        \/ CodeAction(m)
        \/ Ignored(m)

Spec == Init /\ [][Next]_vars

(* The server with a client that sends the document events. *)
NextSched ==
    \/ Environment
    \/ RecvError
    \/ CheckPass
    \/ \E m \in SchedInbox :
        \/ FileSave(m)
        \/ FileOpen(m)
        \/ FileClose(m)
        \/ FileChange(m)
        \/ ConfigChange(m)
        \/ Ignored(m)

SpecSched == Init /\ [][NextSched]_vars

(* The server with a client whose documents exercise the cache. *)
NextCache ==
    \/ Tick
    \/ Enqueue
    \/ CheckPass
    \/ \E m \in CacheInbox :
        \/ FileSave(m)
        \/ FileOpen(m)
        \/ FileChange(m)
        \/ ConfigChange(m)

SpecCache == Init /\ [][NextCache]_vars

(* The server with a client that sends every shape of payload. *)
NextProto ==
    \/ Tick
    \/ Enqueue
    \/ CheckPass
    \/ \E m \in ProtoInbox :
        \/ PayloadError(m)
        \/ FileSave(m)
        \/ FileOpen(m)
        \/ ConfigChange(m)
        \/ CodeAction(m)
        \/ Ignored(m)

SpecProto == Init /\ [][NextProto]_vars

(* The server with a client that opens, edits and closes a document. *)
NextDoc ==
    \/ Tick
    \/ Enqueue
    \/ CheckPass
    \/ \E m \in DocInbox :
        \/ FileSave(m)
        \/ FileOpen(m)
        \/ FileClose(m)
        \/ FileChange(m)

SpecDoc == Init /\ [][NextDoc]_vars

(* The server with a client that sends every kind of message. *)
NextFrame ==
    \/ Tick
    \/ Enqueue
    \/ CheckPass
    \/ \E m \in FrameInbox :
        \/ FileSave(m)
        \/ FileOpen(m)
        \/ FileClose(m)
        \/ FileChange(m)
        \/ ConfigChange(m)
        \/ CodeAction(m)
        \/ Ignored(m)

SpecFrame == Init /\ [][NextFrame]_vars

(* The server with a client that configures languages. *)
NextLang ==
    \/ Tick
    \/ Enqueue
    \/ CheckPass
    \/ \E m \in LangInbox :
        \/ FileSave(m)
        \/ ConfigChange(m)

SpecLang == Init /\ [][NextLang]_vars

(***************************************************************************)
(* The server as it is scheduled.  main_loop is one task that awaits each  *)
(* action to its end and then calls next_action again: a message that is   *)
(* waiting is received and handled, recv_deadline returns once the         *)
(* deadline has passed with no message waiting, and a pass suspended on    *)
(* the analyzer resumes when the analyzer answers.  The clock advances.    *)
(***************************************************************************)
Handle ==
    \E m \in LiveInbox : FileSave(m) \/ FileOpen(m) \/ FileChange(m) \/ ConfigChange(m)

NextLive ==
    \/ Environment
    \/ RecvError
    \/ CheckPass
    \/ Handle

Fairness ==
    /\ WF_vars(Tick)
    /\ WF_vars(Handle)
    /\ WF_vars(CheckStart)
    /\ WF_vars(AnalyzerOk \/ AnalyzerErr)

SpecLive == Init /\ [][NextLive]_vars /\ Fairness

(***************************************************************************)
(* Properties.                                                             *)
(***************************************************************************)
IsPublish(o) == IsSome(o) /\ o[1].type = "notification" /\ o[1].method = PublishDiagnostics

(* A step in which next_action returned a run-check action: a pass began,  *)
(* and either is suspended on the analyzer or has published its result.    *)
BeginsPass == ~IsSome(pass) /\ (IsSome(pass') \/ IsPublish(out'))

(* A step that handled a change event. *)
ChangeHandled == lastChange' # lastChange

(* The deadline of an arming event: its time, plus the idle duration of a change. *)
Deadline(a) == IF IsSome(a.idle) THEN a.time + Unwrap(a.idle) ELSE a.time

(* C1 as amended: there is never more than one PendingCheck; from an open, *)
(* a save or a change handled with an idle duration configured until the   *)
(* check fires, the PendingCheck carries the deadline and the document of  *)
(* the latest such event (so a later event supersedes an earlier one); a   *)
(* change handled with no idle duration arms nothing and leaves the        *)
(* PendingCheck as it was.                                                 *)
C1_ArmingInvariant ==
    /\ Len(check) <= 1
    /\ ~IsSome(armed) => check = None
    /\ IsSome(armed) =>
         LET a == Unwrap(armed)
         IN  /\ a.n = 0 => check = Some(CheckData(Deadline(a), a.url))
             /\ a.n > 0 => check = None

(* C1, witness: a save or open handled after a change of another document  *)
(* that had armed a later deadline; the PendingCheck is the save's.        *)
C1_Witness ==
    /\ IsSome(check) /\ IsSome(armed) /\ IsSome(lastChange)
    /\ ~IsSome(Unwrap(armed).idle)
    /\ IsSome(Unwrap(lastChange).idle)
    /\ Unwrap(lastChange).url # Unwrap(armed).url
    /\ Unwrap(lastChange).time + Unwrap(Unwrap(lastChange).idle) > Unwrap(armed).time
    /\ Unwrap(check).url = Unwrap(armed).url

(* C1 as stated: after every open, save and change event the PendingCheck  *)
(* is that event's (for a change: its document, and a deadline not before  *)
(* the change).                                                            *)
C1_AsStated ==
    [][/\ Len(check') <= 1
       /\ (armed' # armed /\ IsSome(armed') /\ Unwrap(armed').n = 0) =>
             check' = Some(CheckData(Deadline(Unwrap(armed')), Unwrap(armed').url))
       /\ (ChangeHandled /\ IsSome(check')) =>
             /\ Unwrap(check').url = Unwrap(lastChange').url
             /\ Unwrap(check').path = ToFilePath(Unwrap(lastChange').url)
             /\ Unwrap(check').check_time >= Unwrap(lastChange').time]_vars

(* C2 as amended: a change handled with no idle duration configured leaves *)
(* the PendingCheck as it was; a change handled with idle duration D sets  *)
(* the PendingCheck to the change's document and time + D, replacing a     *)
(* pending one; and a check armed by a change fires no earlier than that   *)
(* deadline.  (An open or save handled after the change re-arms the check  *)
(* with deadline now, so that a check may fire sooner than D after the     *)
(* latest change.)                                                         *)
C2_Debounce ==
    [][/\ (ChangeHandled /\ ~IsSome(Unwrap(lastChange').idle)) => check' = check
       /\ (ChangeHandled /\ IsSome(Unwrap(lastChange').idle)) =>
             check' = Some(CheckData(now + Unwrap(Unwrap(lastChange').idle),
                                     Unwrap(lastChange').url))
       /\ (BeginsPass /\ IsSome(armed) /\ IsSome(Unwrap(armed).idle)) =>
             now >= Unwrap(armed).time + Unwrap(Unwrap(armed).idle)]_vars

(* C2, witness: a check armed by a change has fired, after its deadline. *)
C2_Witness ==
    /\ IsSome(armed)
    /\ IsSome(Unwrap(armed).idle)
    /\ Unwrap(armed).n = 1
    /\ check = None
    /\ now >= Unwrap(armed).time + Unwrap(Unwrap(armed).idle)

(* C2 as stated: a change with no idle duration schedules nothing, and no  *)
(* check fires earlier than D after the latest change event handled with   *)
(* idle duration D.                                                        *)
C2_AsStated ==
    [][/\ (ChangeHandled /\ ~IsSome(Unwrap(lastChange').idle)) => check' = check
       /\ (BeginsPass /\ IsSome(lastChange) /\ IsSome(Unwrap(lastChange).idle)) =>
             now >= Unwrap(lastChange).time + Unwrap(Unwrap(lastChange).idle)]_vars

(* C3: a run-check action is returned only when a PendingCheck is armed    *)
(* and the clock has reached its deadline; it clears the PendingCheck, it  *)
(* carries the url and path of the latest arming event, and it is the      *)
(* first one since that event.                                             *)
C3_RunCheck ==
    [][BeginsPass =>
         /\ IsSome(check) /\ check' = None
         /\ now >= Unwrap(check).check_time
         /\ IsSome(armed) /\ Unwrap(armed).n = 0 /\ Unwrap(armed').n = 1
         /\ IsSome(pass') => /\ Unwrap(pass').url = Unwrap(armed).url
                             /\ Unwrap(pass').path = ToFilePath(Unwrap(armed).url)
         /\ IsPublish(out') => Unwrap(out').params.uri = Unwrap(armed).url]_vars

(* C3, witness: the check of the latest arming event has fired and its     *)
(* pass is under way for that document.                                    *)
C3_Witness ==
    /\ IsSome(armed) /\ Unwrap(armed).n = 1
    /\ check = None
    /\ IsSome(pass) /\ Unwrap(pass).url = Unwrap(armed).url

(* A step in which a pass ended: it ran to completion, was aborted by the  *)
(* analyzer, or could not compile the document.                            *)
EndsPass == (IsSome(pass) \/ BeginsPass) /\ ~IsSome(pass')

(* The segment texts of a pass, the segments it called the analyzer for    *)
(* and the suggestions it used for the last segment with a text.           *)
Texts(paragraphs) == {paragraphs[i].text : i \in DOMAIN paragraphs}
Called(p) == {p.calls[i].idx : i \in DOMAIN p.calls}
LastOf(collector, text) ==
    LET last == CHOOSE i \in DOMAIN collector :
                    /\ collector[i].text = text
                    /\ \A j \in DOMAIN collector : collector[j].text = text => j <= i
    IN  collector[last].suggestions

(* C4 as amended: of two consecutive passes the first of which ran to      *)
(* completion, the second serves from the cache the first of its segments  *)
(* with a text the first pass had: no analyzer call for it, and the        *)
(* suggestions the first pass used for its last segment with that text.    *)
(* (Later segments of the same pass with that text miss, and so does every *)
(* segment after a pass that was aborted.)                                 *)
C4_CacheCorrectness ==
    [][(EndsPass /\ prevPass.status = "done") =>
         \A i \in DOMAIN prevPass'.paragraphs :
            LET text == prevPass'.paragraphs[i].text
            IN  (/\ text \in Texts(prevPass.paragraphs)
                 /\ \A j \in 1..(i - 1) : prevPass'.paragraphs[j].text # text) =>
                    /\ i \notin Called(prevPass')
                    /\ i \in DOMAIN prevPass'.collector =>
                         prevPass'.collector[i].suggestions = LastOf(prevPass.collector, text)]_vars

(* C4, witness: a pass has ended that took a segment's suggestions, not    *)
(* empty, from the cache the pass before it had left.                      *)
C4_Witness ==
    /\ prevPass.status = "done"
    /\ \E i \in DOMAIN prevPass.collector :
          /\ i \notin Called(prevPass)
          /\ prevPass.collector[i].text \in DOMAIN prevPass.before
          /\ prevPass.collector[i].suggestions # <<>>

(* C4 as stated: of two consecutive passes that ran to completion, the     *)
(* second calls the analyzer for no segment whose text the first one had,  *)
(* and uses for it suggestions the first one used for that text.           *)
C4_AsStated ==
    [][(EndsPass /\ prevPass.status = "done" /\ prevPass'.status = "done") =>
         \A i \in DOMAIN prevPass'.paragraphs :
            LET text == prevPass'.paragraphs[i].text
            IN  text \in Texts(prevPass.paragraphs) =>
                    /\ i \notin Called(prevPass')
                    /\ i \in DOMAIN prevPass'.collector =>
                         \E k \in DOMAIN prevPass.collector :
                            /\ prevPass.collector[k].text = text
                            /\ prevPass.collector[k].suggestions =
                                 prevPass'.collector[i].suggestions]_vars

(* C5: the suggestions a pass took from the cache for a segment are what   *)
(* the analyzer, as configured when the pass ran, returns for the          *)
(* segment's text in the language resolved for the segment.                *)
C5_HitFidelity ==
    [][EndsPass =>
         \A i \in DOMAIN prevPass'.collector :
            i \notin Called(prevPass') =>
               prevPass'.collector[i].suggestions =
                  CheckText(lt, ResolveLanguage(options, prevPass'.paragraphs[i].mapping),
                            prevPass'.collector[i].text)]_vars

(* C6: a pass compiles the main file configured when it runs, and a pass   *)
(* that ends after a configuration with another main file was applied and  *)
(* before any pass completed since, took no segment from the cache.        *)
C6_NoReuseAcrossSwap ==
    [][/\ IsSome(pass') => Unwrap(pass').main = world'.main
       /\ (EndsPass /\ prevPass'.after_swap) =>
             \A i \in DOMAIN prevPass'.collector : i \in Called(prevPass')]_vars

(* C7 as amended: after a pass that ran to completion the cache holds      *)
(* exactly the texts of that pass's segments; a pass that was aborted by   *)
(* the analyzer or could not compile adds nothing to the cache it started  *)
(* with (and leaves in it the entries it did not take).                    *)
C7_NonGrowth ==
    [][EndsPass =>
         IF prevPass'.status = "done"
         THEN DOMAIN cache' = Texts(prevPass'.paragraphs)
         ELSE /\ DOMAIN cache' \subseteq DOMAIN prevPass'.before
              /\ cache' = cache]_vars

(* C7, witness: a pass has run to completion whose cache at the start held *)
(* a text that is not among its segments, and the cache no longer has it.  *)
C7_Witness ==
    /\ ~IsSome(pass)
    /\ prevPass.status = "done"
    /\ \E t \in DOMAIN prevPass.before :
          t \notin Texts(prevPass.paragraphs) /\ t \notin DOMAIN cache

(* C7 as stated: a text in the cache when a pass starts that is not among  *)
(* the pass's segments is not in the cache when the pass has ended.        *)
C7_AsStated ==
    [][(EndsPass /\ prevPass'.status # "compile_failed") =>
         \A t \in DOMAIN prevPass'.before :
            t \notin Texts(prevPass'.paragraphs) => t \notin DOMAIN cache']_vars

(* C8: while a pass is under way nothing is published; when the analyzer   *)
(* fails the pass ends with nothing sent, the loop goes on, no             *)
(* PendingCheck is armed and the cache is as the pass left it.             *)
C8_AnalyzerErrorAborts ==
    [][/\ (IsSome(pass) /\ IsSome(pass')) => out' = None
       /\ (IsSome(pass) /\ ~IsSome(pass') /\ prevPass'.status = "aborted") =>
             /\ out' = None
             /\ exit' = "running"
             /\ check = None /\ check' = None
             /\ armed' = armed
             /\ cache' = cache]_vars

(* C8, witness: the analyzer has just failed in a pass that had collected  *)
(* suggestions for an earlier segment; nothing was sent.                   *)
C8_Witness ==
    /\ prevPass.status = "aborted"
    /\ \E i \in DOMAIN prevPass.collector : prevPass.collector[i].suggestions # <<>>
    /\ log = <<"analyzer error">>
    /\ out = None
    /\ ~IsSome(pass) /\ ~IsSome(check)
    /\ exit = "running"

(* C9: the main loop never ends on a message whose payload does not parse. *)
C9_PayloadErrorDropped == exit # "json_error"

(* A step that handled a configuration change and failed. *)
ConfigFailed == log' \in {<<"settings error">>, <<"backend error">>}

(* C10: a configuration change that fails, on the payload or on building   *)
(* the backend, leaves the analyzer client, the world, the options, the    *)
(* PendingCheck and the cache as they were, and the loop goes on.          *)
C10_ConfigAllOrNothing ==
    [][ConfigFailed =>
         /\ lt' = lt
         /\ world' = world
         /\ options' = options
         /\ check' = check
         /\ cache' = cache
         /\ exit' = "running"]_vars

(* C10, witness: a configuration change has just failed on the backend,    *)
(* after another one had been applied; that one is still active.           *)
C10_Witness ==
    /\ log = <<"backend error">>
    /\ world.main = PathB
    /\ options.chunk_size = 1
    /\ lt.host = HostUp
    /\ exit = "running"

(* A step in which next_action took the PendingCheck. *)
TakesCheck == IsSome(check) /\ check' = None

(* C11: a check whose document does not compile publishes an empty list of *)
(* diagnostics for the document of the check, calls the analyzer for       *)
(* nothing, and leaves the loop running.                                   *)
C11_CompileFailure ==
    [][(TakesCheck /\ ~IsSome(Compile(world))) =>
         /\ out' = Some(Publish(Unwrap(check).url, <<>>))
         /\ ~IsSome(pass')
         /\ prevPass'.status = "compile_failed"
         /\ prevPass'.calls = <<>> /\ prevPass'.collector = <<>>
         /\ exit' = "running"]_vars

(* C11, witness: a check of a document that does not compile has just     *)
(* published the empty list.                                               *)
C11_Witness ==
    /\ ~IsSome(Compile(world))
    /\ prevPass.status = "compile_failed"
    /\ IsPublish(out) /\ Unwrap(out).params.diagnostics = <<>>
    /\ ~IsSome(pass)
    /\ exit = "running"

(* C12: from the start of a check pass to its end no message is taken from *)
(* the queue (one that arrives stays queued), the shadow files, the        *)
(* options, the analyzer client and the PendingCheck are untouched, the    *)
(* cache changes only by the entries the pass takes from it or, at the end *)
(* of the pass, by the pass's own new cache, and no other check starts.    *)
C12_OneActionAtATime ==
    [][IsSome(pass) =>
         /\ queue' >= queue
         /\ world' = world /\ options' = options /\ lt' = lt
         /\ check = None /\ check' = None
         /\ IsSome(pass') =>
               /\ Unwrap(pass').url = Unwrap(pass).url
               /\ Unwrap(pass').paragraphs = Unwrap(pass).paragraphs
               /\ Unwrap(pass').idx >= Unwrap(pass).idx
               /\ \A t \in DOMAIN cache' : t \in DOMAIN cache /\ cache'[t] = cache[t]
         /\ ~IsSome(pass') =>
               \/ cache' = cache /\ prevPass'.status = "aborted"
               \/ prevPass'.status = "done" /\ DOMAIN cache' = Texts(prevPass'.paragraphs)]_vars

(* C12, witness: a message has arrived while a pass was suspended on the   *)
(* analyzer after its first segment, and waits in the queue.               *)
C12_Witness ==
    /\ IsSome(pass)
    /\ Unwrap(pass).collector # <<>>
    /\ queue > 0

(* The text a check of the client's documents is to read for a path, the   *)
(* document they make, and the segments of the pass a step started.        *)
Held(p) == IF IsSome(buffer[p]) THEN Unwrap(buffer[p]) ELSE Disk[p]
HeldDocument == [main |-> world.main, files |-> [p \in Includes[world.main] |-> Held(p)]]
StartedParagraphs ==
    IF IsSome(pass') THEN Unwrap(pass').paragraphs ELSE prevPass'.paragraphs

(* C13: every check pass reads, for a document that is open, the text of   *)
(* its open event with the edits of the change events since, and for a     *)
(* document that is not open (never opened, or closed since) the file on   *)
(* disk; its segments are those of that text.                              *)
C13_ShadowLifecycle ==
    [][(TakesCheck /\ IsSome(Compile(world))) =>
         /\ Unwrap(Compile(world)) = HeldDocument
         /\ StartedParagraphs =
               Document(HeldDocument, options.chunk_size, Unwrap(check).path)]_vars

(* C13, witness: a pass has read the document as opened and then edited by *)
(* two change events; the file on disk has another text.                   *)
C13_Witness ==
    /\ buffer[PathA] = Some(<<"d", NL, "c">>)
    /\ Disk[PathA] # <<"d", NL, "c">>
    /\ prevPass.status = "done"
    /\ Texts(prevPass.paragraphs) = {<<"d">>, <<"c">>}

(* The buffer after the first n edits of a change event: edit n has its    *)
(* positions converted on the buffer after the edits before it and         *)
(* replaces that range of bytes by its text; an edit with no range         *)
(* replaces the buffer.                                                    *)
RECURSIVE FoldEdits(_, _, _)
FoldEdits(text, changes, n) ==
    IF n = 0 THEN text
    ELSE LET prev == FoldEdits(text, changes, n - 1)
             edit == changes[n]
         IN  IF ~IsSome(edit.range) THEN edit.text
             ELSE LET range == Unwrap(edit.range)
                      start == Unwrap(LineColumnToByte(prev, range.start.line,
                                                       range.start.character))
                      end   == Unwrap(LineColumnToByte(prev, range.end.line,
                                                       range.end.character))
                  IN  [i \in 1..(start + Len(edit.text) + Len(prev) - end) |->
                         IF i <= start THEN prev[i]
                         ELSE IF i <= start + Len(edit.text) THEN edit.text[i - start]
                         ELSE prev[i - Len(edit.text) - start + end]]

(* C14: a change event that is handled leaves, as the shadow file of its   *)
(* document, the left-to-right fold of its edits over the shadow file it   *)
(* found, and leaves the other shadow files alone.                         *)
C14_EditOrder ==
    [][ChangeHandled =>
         LET change == Unwrap(lastChange')
             path   == ToFilePath(change.url)
         IN  /\ IsSome(ShadowFile(world, path))
             /\ ShadowFile(world', path) =
                   Some(FoldEdits(Unwrap(ShadowFile(world, path)), change.changes,
                                  Len(change.changes)))
             /\ \A p \in Paths \ {path} : ShadowFile(world', p) = ShadowFile(world, p)]_vars

(* C14, witness: a change event of two edits has just been handled, the    *)
(* second of which is a range edit of the buffer the first one left.       *)
C14_Witness ==
    /\ log = <<"Change">>
    /\ IsSome(lastChange) /\ Len(Unwrap(lastChange).changes) = 2
    /\ ShadowFile(world, PathA) = Some(<<"b", NL, "c">>)
    /\ buffer[PathA] = Some(<<"b", NL, "c">>)

(* The anchoring diagnostic of a fix request carries a list of strings. *)
HasReplacements(diagnostics) ==
    /\ diagnostics # <<>>
    /\ IsSome(diagnostics[Len(diagnostics)].data)
    /\ Unwrap(diagnostics[Len(diagnostics)].data).json = "array"

(* C15: the response to a fix request whose last diagnostic carries a list *)
(* of n replacements has n candidates in the order of the list, the i-th   *)
(* titled for replacement i, with one text edit that puts replacement i in *)
(* the range of that diagnostic, and the first one alone preferred; the    *)
(* response to any other fix request has no candidates; the loop goes on.  *)
C15_FixGeneration ==
    [][\A m \in ProtoInbox :
          CodeAction(m) =>
             LET diagnostics == m.params.diagnostics
                 result      == Unwrap(out').params.result
             IN  /\ exit' = "running"
                 /\ IF HasReplacements(diagnostics)
                    THEN LET anchor       == diagnostics[Len(diagnostics)]
                             replacements == Unwrap(anchor.data).items
                         IN  /\ IsSome(result)
                             /\ Len(Unwrap(result)) = Len(replacements)
                             /\ \A i \in 1..Len(replacements) :
                                   LET candidate == Unwrap(result)[i]
                                   IN  /\ candidate.title =
                                            <<"Replace with \"", replacements[i], "\"">>
                                       /\ candidate.edit.uri = m.params.uri
                                       /\ candidate.edit.range = anchor.range
                                       /\ candidate.edit.new_text = replacements[i]
                                       /\ candidate.is_preferred = (i = 1)
                    ELSE result = None]_vars

(* C15, witness: the response to a fix request whose last diagnostic       *)
(* carries "foo" and "bar" has just been sent, with two candidates.        *)
C15_Witness ==
    /\ IsSome(out) /\ Unwrap(out).type = "response"
    /\ IsSome(Unwrap(out).params.result)
    /\ Len(Unwrap(Unwrap(out).params.result)) = 2
    /\ Unwrap(Unwrap(out).params.result)[2].edit.new_text = "bar"
    /\ exit = "running"

(* A step in which next_action returned a message. *)
MessageReturned == queue' < queue

(* The message handled was an open, a save, or a change handled with an    *)
(* idle duration configured.                                               *)
ArmingMessage ==
    \/ log' \in {<<"Open">>, <<"Save">>}
    \/ log' = <<"Change">> /\ IsSome(options.on_change)

(* C16: a message returned by next_action does not consume the             *)
(* PendingCheck, whatever its deadline; handling a message that is not an  *)
(* open, a save or a change with an idle duration configured (a close, a   *)
(* configuration change, a fix request, a cancel, an unknown method, a     *)
(* response, a change with no idle duration) leaves the PendingCheck, its  *)
(* deadline and its document, as it was.                                   *)
C16_MessageKeepsCheck ==
    [][MessageReturned =>
          /\ IsSome(check) => IsSome(check')
          /\ ~ArmingMessage => check' = check]_vars

(* A close was handled before the deadline of the armed check. *)
C16_Witness ==
    /\ IsSome(check)
    /\ Unwrap(check).check_time > now
    /\ log = <<"Close">>
    /\ exit = "running"

(* The segments of a pass with a text, and the calls it made for that text. *)
Occurrences(paragraphs, text) == {i \in DOMAIN paragraphs : paragraphs[i].text = text}
CallsFor(p, text) == {k \in DOMAIN p.calls : p.calls[k].text = text}

(* C17: a pass that ran to completion, whose starting cache held a text    *)
(* that two or more of its segments have, served the first of them from    *)
(* the cache and called the analyzer once for each later one; the cache it *)
(* leaves has for that text the suggestions of the last of them.           *)
C17_LookupConsumes ==
    [][(EndsPass /\ prevPass'.status = "done") =>
         \A text \in DOMAIN prevPass'.before :
            LET occurrences == Occurrences(prevPass'.paragraphs, text)
                first       == CHOOSE i \in occurrences : \A j \in occurrences : i <= j
                last        == CHOOSE i \in occurrences : \A j \in occurrences : j <= i
            IN  Cardinality(occurrences) >= 2 =>
                   /\ {prevPass'.calls[k].idx : k \in CallsFor(prevPass', text)}
                         = occurrences \ {first}
                   /\ Cardinality(CallsFor(prevPass', text)) = Cardinality(occurrences) - 1
                   /\ prevPass'.collector[first].suggestions = prevPass'.before[text]
                   /\ text \in DOMAIN cache'
                   /\ cache'[text] = prevPass'.collector[last].suggestions]_vars

(* A completed pass with two segments of one text: the first took the      *)
(* cached suggestions, the second got others from the analyzer, and those  *)
(* are the ones now cached.                                                *)
C17_Witness ==
    /\ prevPass.status = "done"
    /\ Len(prevPass.paragraphs) = 2
    /\ prevPass.paragraphs[1].text = prevPass.paragraphs[2].text
    /\ prevPass.paragraphs[1].text \in DOMAIN prevPass.before
    /\ Called(prevPass) = {2}
    /\ prevPass.collector[1].suggestions # prevPass.collector[2].suggestions
    /\ pass = None
    /\ cache[prevPass.paragraphs[1].text] = prevPass.collector[2].suggestions

(* The PendingChecks whose deadline the clock reaches. *)
DueChecks == {CheckData(t, u) : t \in 0..MaxTime, u \in Urls}

(* C18: a PendingCheck that is armed while no message is waiting is        *)
(* eventually taken by a run-check action or replaced by a later arming,   *)
(* unless a message arrives first, the channel is disconnected or a        *)
(* handler ends the loop; and a run-check action is returned only when no  *)
(* message is waiting, so a check whose deadline has passed waits for as   *)
(* long as messages are there.                                             *)
C18_ArmedCheckFires ==
    /\ [][BeginsPass => queue = 0]_vars
    /\ \A v \in DueChecks :
          (check = Some(v) /\ queue = 0)
             ~> (check # Some(v) \/ queue > 0 \/ ~connected \/ exit # "running")

(* A check armed by a change with an idle duration has fired, at its       *)
(* deadline, with the channel connected.                                   *)
C18_Witness ==
    /\ IsSome(armed)
    /\ Unwrap(armed).idle = Some(1)
    /\ Unwrap(armed).n = 1
    /\ now = Unwrap(armed).time + 1
    /\ check = None
    /\ connected
    /\ exit = "running"

(* The texts a pass took from the cache: its segments that went to the     *)
(* collector without an analyzer call.                                     *)
HitTexts(p) == {p.collector[i].text : i \in DOMAIN p.collector \ Called(p)}

(* C19: a pass that could not compile leaves the cache as it was when the  *)
(* pass started; a pass that the analyzer aborted leaves the cache it      *)
(* started with, less the entries it took for the segments before the      *)
(* failing one.  Either way nothing the analyzer returned in that pass is  *)
(* in the cache.                                                           *)
C19_IncompletePassAddsNothing ==
    [][EndsPass =>
         /\ prevPass'.status = "compile_failed" => cache' = prevPass'.before
         /\ prevPass'.status = "aborted" =>
               cache' = [t \in DOMAIN prevPass'.before \ HitTexts(prevPass') |->
                            prevPass'.before[t]]]_vars

(* The analyzer has failed in a pass that had taken an entry from the      *)
(* cache for an earlier segment: the cache has lost that entry and gained  *)
(* none.                                                                   *)
C19_Witness ==
    /\ prevPass.status = "aborted"
    /\ ~IsSome(pass)
    /\ HitTexts(prevPass) # {}
    /\ cache # prevPass.before
    /\ DOMAIN cache = DOMAIN prevPass.before \ HitTexts(prevPass)

(* The base tags, and the tag a list of configured tags gives for a base:  *)
(* the last tag of the list with that base, if there is one.               *)
Bases == {"de", "en"}
Configured(codes, base) ==
    LET with == {i \in DOMAIN codes : Head(codes[i]) = base}
    IN  IF with = {} THEN None
        ELSE Some(codes[CHOOSE i \in with : \A j \in with : j <= i])

(* A step in which the pass called the analyzer. *)
CallsAnalyzer == IsSome(pass') /\ (IsSome(pass) => Unwrap(pass').calls # Unwrap(pass).calls)

(* C20: a configuration change that is applied leaves a language map that  *)
(* has, for each base tag, the configured tag with that base (the last one *)
(* if several have it) and nothing for a base no configured tag has; the   *)
(* map changes in no other step; and each analyzer call is made with the   *)
(* map's tag for the base of the segment's language when the map has one,  *)
(* and with the segment's full tag otherwise.                              *)
C20_LanguageResolution ==
    [][/\ \A m \in LangInbox :
             (ConfigChange(m) /\ log' = <<"Options:">>) =>
                LET codes == Unwrap(Deserialize(m.params.settings)).languages
                IN  \A base \in Bases :
                       IF IsSome(Configured(codes, base))
                       THEN /\ base \in DOMAIN options'.language_codes
                            /\ options'.language_codes[base] = Unwrap(Configured(codes, base))
                       ELSE base \notin DOMAIN options'.language_codes
       /\ options'.language_codes # options.language_codes => log' = <<"Options:">>
       /\ CallsAnalyzer =>
             LET p       == Unwrap(pass')
                 call    == p.calls[Len(p.calls)]
                 segment == p.paragraphs[call.idx].mapping
                 base    == segment.short_language
             IN  call.lang = IF base \in DOMAIN options.language_codes
                             THEN options.language_codes[base]
                             ELSE segment.long_language]_vars

(* The analyzer is being asked about a de-DE segment in de-CH, the later   *)
(* of two configured tags with the base de.                                *)
C20_Witness ==
    /\ IsSome(pass)
    /\ LET p    == Unwrap(pass)
           call == p.calls[Len(p.calls)]
       IN  /\ p.paragraphs[call.idx].mapping.long_language = <<"de", "DE">>
           /\ call.lang = <<"de", "CH">>
    /\ options.language_codes["de"] = <<"de", "CH">>

====
